---------------------------- MODULE Spec2Model ----------------------------
(***************************************************************************)
(* A model of zendesk/zendesk.py: the table-driven dispatcher               *)
(* Zendesk.__getattr__.call, the response handler and the error classes.    *)
(*                                                                          *)
(* Text (URLs, paths, keyword names, bodies, credentials) is a sequence of  *)
(* one-character strings, so that the regular expressions, the query        *)
(* encoding and base64 are computed character by character.  A Python       *)
(* value is a record tagged with its type.                                  *)
(***************************************************************************)
EXTENDS Integers, Sequences, FiniteSets, TLC

(* ------------------------------------------------------------------ *)
(* Python values                                                        *)
(* ------------------------------------------------------------------ *)
PyNone == [t |-> "None"]
PyStr(s) == [t |-> "str", v |-> s]
PyInt(n) == [t |-> "int", v |-> n]
PyDict(d) == [t |-> "dict", v |-> d]
PyList(l) == [t |-> "list", v |-> l]

\* Python truthiness: None, '', 0, {} and [] are false.
Truthy(x) ==
    CASE x.t = "None" -> FALSE
      [] x.t = "str" -> Len(x.v) > 0
      [] x.t = "int" -> x.v # 0
      [] x.t = "dict" -> DOMAIN x.v # {}
      [] x.t = "list" -> Len(x.v) > 0
      [] OTHER -> TRUE

\* a or b
PyOr(a, b) == IF Truthy(a) THEN a ELSE b

Digit == <<"0", "1", "2", "3", "4", "5", "6", "7", "8", "9">>

RECURSIVE IntToStr(_)
IntToStr(n) ==
    IF n < 10 THEN <<Digit[n + 1]>>
    ELSE IntToStr(n \div 10) \o <<Digit[(n % 10) + 1]>>

\* "%s" % x, for the values a caller passes as keywords.
PyFormat(x) ==
    CASE x.t = "str" -> x.v
      [] x.t = "int" -> IntToStr(x.v)
      [] x.t = "None" -> <<"N", "o", "n", "e">>
      [] OTHER -> <<"{", "}">>

(* ------------------------------------------------------------------ *)
(* Text helpers                                                         *)
(* ------------------------------------------------------------------ *)
Lower == {"a", "b", "c", "d", "e", "f", "g", "h", "i", "j", "k", "l", "m",
          "n", "o", "p", "q", "r", "s", "t", "u", "v", "w", "x", "y", "z"}
Upper == {"A", "B", "C", "D", "E", "F", "G", "H", "I", "J", "K", "L", "M",
          "N", "O", "P", "Q", "R", "S", "T", "U", "V", "W", "X", "Y", "Z"}
Digits == {"0", "1", "2", "3", "4", "5", "6", "7", "8", "9"}

\* The character class [a-zA-Z_] of the placeholder pattern.
IsIdentChar(c) == c \in Lower \cup Upper \cup {"_"}

StartsWith(s, p) == Len(s) >= Len(p) /\ SubSeq(s, 1, Len(p)) = p

\* str.rstrip('/')
RECURSIVE RStripSlash(_)
RStripSlash(s) ==
    IF Len(s) > 0 /\ s[Len(s)] = "/" THEN RStripSlash(SubSeq(s, 1, Len(s) - 1))
    ELSE s

IsSpace(c) == c \in {" ", "\n", "\t"}

\* str.strip()
RECURSIVE LStrip(_)
LStrip(s) == IF Len(s) > 0 /\ IsSpace(s[1]) THEN LStrip(Tail(s)) ELSE s
RECURSIVE RStrip(_)
RStrip(s) ==
    IF Len(s) > 0 /\ IsSpace(s[Len(s)]) THEN RStrip(SubSeq(s, 1, Len(s) - 1))
    ELSE s
Strip(s) == LStrip(RStrip(s))


LowerSeq == <<"a", "b", "c", "d", "e", "f", "g", "h", "i", "j", "k", "l", "m",
              "n", "o", "p", "q", "r", "s", "t", "u", "v", "w", "x", "y", "z">>
UpperSeq == <<"A", "B", "C", "D", "E", "F", "G", "H", "I", "J", "K", "L", "M",
              "N", "O", "P", "Q", "R", "S", "T", "U", "V", "W", "X", "Y", "Z">>

IndexOf(seq, c) == CHOOSE i \in 1..Len(seq) : seq[i] = c

\* ord(c), for the ASCII characters the model uses.
Ord(c) ==
    CASE c \in Lower -> 96 + IndexOf(LowerSeq, c)
      [] c \in Upper -> 64 + IndexOf(UpperSeq, c)
      [] c \in Digits -> 47 + IndexOf(Digit, c)
      [] c = " " -> 32
      [] c = "+" -> 43
      [] c = "-" -> 45
      [] c = "." -> 46
      [] c = "/" -> 47
      [] c = ":" -> 58
      [] c = "=" -> 61
      [] c = "?" -> 63
      [] c = "_" -> 95
      [] c = "{" -> 123
      [] c = "}" -> 125

(* ------------------------------------------------------------------ *)
(* base64.b64encode                                                     *)
(* ------------------------------------------------------------------ *)
B64Alphabet == UpperSeq \o LowerSeq \o Digit \o <<"+", "/">>

B64Char(n) == B64Alphabet[n + 1]

RECURSIVE B64Bytes(_)
B64Bytes(b) ==
    CASE Len(b) = 0 -> <<>>
      [] Len(b) = 1 ->
            <<B64Char(b[1] \div 4), B64Char((b[1] % 4) * 16), "=", "=">>
      [] Len(b) = 2 ->
            <<B64Char(b[1] \div 4),
              B64Char((b[1] % 4) * 16 + b[2] \div 16),
              B64Char((b[2] % 16) * 4), "=">>
      [] OTHER ->
            <<B64Char(b[1] \div 4),
              B64Char((b[1] % 4) * 16 + b[2] \div 16),
              B64Char((b[2] % 16) * 4 + b[3] \div 64),
              B64Char(b[3] % 64)>> \o B64Bytes(SubSeq(b, 4, Len(b)))

b64encode(s) == B64Bytes([i \in 1..Len(s) |-> Ord(s[i])])

(* ------------------------------------------------------------------ *)
(* urllib.urlencode                                                     *)
(* ------------------------------------------------------------------ *)
HexDigit == <<"0", "1", "2", "3", "4", "5", "6", "7", "8", "9",
              "A", "B", "C", "D", "E", "F">>

\* urllib.quote_plus of one character: letters, digits and _ . - are kept,
\* a space becomes +, anything else %XX.
QuoteChar(c) ==
    IF c \in Lower \cup Upper \cup Digits \cup {"_", ".", "-"} THEN <<c>>
    ELSE IF c = " " THEN <<"+">>
    ELSE <<"%", HexDigit[(Ord(c) \div 16) + 1], HexDigit[(Ord(c) % 16) + 1]>>

RECURSIVE quote_plus(_)
quote_plus(s) ==
    IF Len(s) = 0 THEN <<>> ELSE QuoteChar(s[1]) \o quote_plus(Tail(s))

\* The order in which a dict yields its keys: fixed for a given key set, and
\* otherwise unspecified.
RECURSIVE DictOrder(_)
DictOrder(keys) ==
    IF keys = {} THEN <<>>
    ELSE LET k == CHOOSE x \in keys : TRUE
         IN <<k>> \o DictOrder(keys \ {k})

RECURSIVE JoinPairs(_, _)
JoinPairs(order, kwargs) ==
    IF Len(order) = 0 THEN <<>>
    ELSE LET k == order[1]
             pair == quote_plus(k) \o <<"=">> \o quote_plus(PyFormat(kwargs[k]))
         IN IF Len(order) = 1 THEN pair
            ELSE pair \o <<"&">> \o JoinPairs(Tail(order), kwargs)

urlencode(kwargs) == JoinPairs(DictOrder(DOMAIN kwargs), kwargs)

(* ------------------------------------------------------------------ *)
(* dict.pop and the placeholder substitution (re.sub)                   *)
(* ------------------------------------------------------------------ *)
Without(kwargs, k) == [x \in (DOMAIN kwargs) \ {k} |-> kwargs[x]]

\* A pop that reads the key and leaves it in the dict (dict.get).
Pop_Keeps(kwargs, k, default) ==
    IF k \in DOMAIN kwargs
    THEN [value |-> kwargs[k], kwargs |-> kwargs]
    ELSE [value |-> default, kwargs |-> kwargs]

\* kwargs.pop(k, default): the value, and the dict without the key.
Pop(kwargs, k, default) ==
    IF k \in DOMAIN kwargs
    THEN [value |-> kwargs[k], kwargs |-> Without(kwargs, k)]
    ELSE [value |-> default, kwargs |-> kwargs]

RECURSIVE IdentEnd(_, _)
IdentEnd(s, j) ==
    IF j <= Len(s) /\ IsIdentChar(s[j]) THEN IdentEnd(s, j + 1) ELSE j

\* A match of \{\{(?P<m>[a-zA-Z_]+)\}\} starting at position i of s.
MatchPlaceholder(s, i) ==
    IF i + 1 <= Len(s) /\ s[i] = "{" /\ s[i + 1] = "{"
    THEN LET j == IdentEnd(s, i + 2)
         IN IF j > i + 2 /\ j + 1 <= Len(s) /\ s[j] = "}" /\ s[j + 1] = "}"
            THEN [ok |-> TRUE, name |-> SubSeq(s, i + 2, j - 1), next |-> j + 2]
            ELSE [ok |-> FALSE]
    ELSE [ok |-> FALSE]

\* lambda m: "%s" % kwargs.pop(m.group(1), '')
Replacement(kwargs, name) == PyFormat(Pop(kwargs, name, PyStr(<<>>)).value)

\* re.sub(pattern, lambda, s): the matches are replaced left to right, each
\* one popping its keyword; returns the text and what is left of kwargs.
RECURSIVE ReSub(_, _, _, _)
ReSub(s, i, kwargs, out) ==
    IF i > Len(s) THEN [url |-> out, kwargs |-> kwargs]
    ELSE LET m == MatchPlaceholder(s, i)
         IN IF m.ok
            THEN ReSub(s, m.next, Pop(kwargs, m.name, PyStr(<<>>)).kwargs,
                       out \o Replacement(kwargs, m.name))
            ELSE ReSub(s, i + 1, kwargs, Append(out, s[i]))

Substitute(template, kwargs) == ReSub(template, 1, kwargs, <<>>)

\* A pattern that matches every path.
IsSearchPath_AnyPath(path) == StartsWith(path, <<"/">>)

\* re.match("^/search\..*", path)
IsSearchPath(path) ==
    StartsWith(path, <<"/", "s", "e", "a", "r", "c", "h", ".">>)

(* ------------------------------------------------------------------ *)
(* Outcomes of a call, exceptions                                       *)
(* ------------------------------------------------------------------ *)
NoResult == [kind |-> "none"]
Returned(v) == [kind |-> "return", value |-> v]
Raised(e) == [kind |-> "raise", exc |-> e]

NameError(name) == [type |-> "NameError", name |-> name]
KeyError(key) == [type |-> "KeyError", key |-> key]
TypeErrorOf(what) == [type |-> "TypeError", what |-> what]
AttributeError(name) == [type |-> "AttributeError", name |-> name]

\* x[key] on a Python value: the value, or the exception the lookup raises.
Subscript(x, key) ==
    IF x.t = "dict"
    THEN IF key \in DOMAIN x.v THEN Returned(x.v[key])
         ELSE Raised(KeyError(key))
    ELSE Raised(TypeErrorOf("subscript"))

\* len(x): sized values only.
PyLen(x) ==
    CASE x.t = "dict" -> Returned(Cardinality(DOMAIN x.v))
      [] x.t = "list" -> Returned(Len(x.v))
      [] x.t = "str" -> Returned(Len(x.v))
      [] OTHER -> Raised(TypeErrorOf("len"))

(* ------------------------------------------------------------------ *)
(* The error classes                                                    *)
(* ------------------------------------------------------------------ *)
\* raise AuthenticationError(msg): __init__ reads msg['error'].
AuthenticationError(msg) ==
    LET e == Subscript(msg, "error")
    IN IF e.kind = "raise" THEN e
       ELSE Raised([type |-> "AuthenticationError",
                    msg |-> PyStr(PyFormat(e.value))])

\* raise ExceededLimitError(msg, error_code, retry_after)
ExceededLimitError(msg, error_code, retry_after) ==
    Raised([type |-> "ExceededLimitError", msg |-> msg,
            error_code |-> error_code, retry_after |-> retry_after])

\* A constructor that does not single out status 429.
ZendeskError_No429(msg, error) ==
    IF error.t # "int" THEN Raised(TypeErrorOf("int"))
    ELSE IF error.v = 401 THEN AuthenticationError(msg)
    ELSE Raised([type |-> "ZendeskError", msg |-> msg, error_code |-> error.v])

\* raise ZendeskError(msg, error): __init__ classifies by the status code and
\* raises the subclass from inside the constructor.
ZendeskError(msg, error) ==
    IF error.t # "int" THEN Raised(TypeErrorOf("int"))
    ELSE IF error.v = 401 THEN AuthenticationError(msg)
    ELSE IF error.v = 429
    THEN LET ra == Subscript(msg, "retry-after")
             m == Subscript(msg, "msg")
         IN IF ra.kind = "raise" THEN ra
            ELSE IF m.kind = "raise" THEN m
            ELSE ExceededLimitError(m.value, error.v, ra.value)
    ELSE Raised([type |-> "ZendeskError", msg |-> msg, error_code |-> error.v])

(* ------------------------------------------------------------------ *)
(* json                                                                 *)
(* ------------------------------------------------------------------ *)
Body_empty == <<>>
Body_blank == <<" ">>
Body_emptyobj == <<"{", "}">>
Body_error == <<"{", "\"", "e", "r", "r", "o", "r", "\"", ":", "\"", "n", "o", "\"", "}">>
Body_list == <<"[", "1", "]">>
Body_number == <<"5">>
Body_text == <<"o", "o", "p", "s">>

EmptyMap == [k \in {} |-> PyNone]

\* json.loads on the bodies of the model: the decoded value, or ValueError.
json_loads(content) ==
    CASE content = Body_emptyobj -> Returned(PyDict(EmptyMap))
      [] content = Body_error ->
            Returned(PyDict([k \in {"error"} |-> PyStr(<<"n", "o">>)]))
      [] content = Body_list -> Returned(PyList(<<PyInt(1)>>))
      [] content = Body_number -> Returned(PyInt(5))
      [] OTHER -> Raised([type |-> "ValueError"])

\* json.dumps of a request body.
json_dumps(body) ==
    IF body.t = "None" THEN <<"n", "u", "l", "l">>
    ELSE IF body.t = "dict" /\ DOMAIN body.v = {} THEN <<"{", "}">>
    ELSE <<"{", "\"", "k", "\"", ":", "1", "}">>

(* ------------------------------------------------------------------ *)
(* Zendesk._response_handler                                            *)
(* ------------------------------------------------------------------ *)
\* The try block of the status-mismatch branch.  Its first statement reads
\* the global name `respone`, which the module never binds.
MismatchTry(response, content) == Raised(NameError("respone"))

\* The except Exception branch: the fallback message, raised as ZendeskError.
MismatchExcept(response, content) ==
    LET keys == {"msg"} \cup ({"retry-after"} \cap DOMAIN response.headers)
        message == [k \in keys |->
                      IF k = "msg" THEN PyStr(content)
                      ELSE PyStr(response.headers["retry-after"])]
    IN ZendeskError(PyDict(message), PyInt(response.status_code))

\* The part after the status check: decoded body, Location header, or the
\* lookup of the status text in `responses`, a name the module never binds.
SuccessPart(response, content) ==
    LET decoded == json_loads(content)
        size == IF decoded.kind = "return" THEN PyLen(decoded.value)
                ELSE decoded
        fromBody == Strip(content) # <<>> /\ size.kind = "return"
                    /\ size.value > 0
    IN IF fromBody THEN Returned(decoded.value)
       ELSE IF "location" \in DOMAIN response.headers
               /\ Len(response.headers["location"]) > 0
       THEN Returned(PyStr(response.headers["location"]))
       ELSE Raised(NameError("responses"))

_response_handler(response, content, status) ==
    IF response.status_code = 0
    THEN ZendeskError(PyStr(<<"R", "e", "s", "p", "o", "n", "s", "e">>), PyNone)
    ELSE IF response.status_code # status
    THEN LET tried == MismatchTry(response, content)
         IN IF tried.kind = "raise" THEN MismatchExcept(response, content)
            ELSE SuccessPart(response, content)
    ELSE SuccessPart(response, content)

(* ------------------------------------------------------------------ *)
(* The endpoint tables (endpoints.py, endpoints_v2.py)                  *)
(* ------------------------------------------------------------------ *)
K_data == <<"d", "a", "t", "a">>
K_query == <<"q", "u", "e", "r", "y">>
K_page == <<"p", "a", "g", "e">>
K_per_page == <<"p", "e", "r", "_", "p", "a", "g", "e">>
K_sort_order == <<"s", "o", "r", "t", "_", "o", "r", "d", "e", "r">>
K_user_id == <<"u", "s", "e", "r", "_", "i", "d">>
K_identity_id == <<"i", "d", "e", "n", "t", "i", "t", "y", "_", "i", "d">>
K_foo == <<"f", "o", "o">>

mapping_table_v1 ==
    [search |-> [path |-> <<"/", "s", "e", "a", "r", "c", "h", ".", "j", "s", "o", "n">>, valid_params |-> {K_query, K_page},
                 method |-> "GET", status |-> 200],
     show_identity |-> [path |-> <<"/", "u", "s", "e", "r", "s", "/", "{", "{", "u", "s", "e", "r", "_", "i", "d", "}", "}", "/", "i", "d", "s", "/", "{", "{", "i", "d", "e", "n", "t", "i", "t", "y", "_", "i", "d", "}", "}", ".", "j", "s", "o", "n">>,
                        method |-> "GET", status |-> 200],
     create_user |-> [path |-> <<"/", "u", "s", "e", "r", "s", ".", "j", "s", "o", "n">>, valid_params |-> {},
                      method |-> "POST", status |-> 201]]

mapping_table_v2 ==
    [search |-> [path |-> <<"/", "s", "e", "a", "r", "c", "h", ".", "j", "s", "o", "n">>, valid_params |-> {K_query},
                 method |-> "GET", status |-> 200],
     show_identity |-> [path |-> <<"/", "u", "s", "e", "r", "s", "/", "{", "{", "u", "s", "e", "r", "_", "i", "d", "}", "}", "/", "i", "d", "s", "/", "{", "{", "i", "d", "e", "n", "t", "i", "t", "y", "_", "i", "d", "}", "}", ".", "j", "s", "o", "n">>,
                        method |-> "GET", status |-> 200],
     create_user |-> [path |-> <<"/", "u", "s", "e", "r", "s", ".", "j", "s", "o", "n">>, valid_params |-> {},
                      method |-> "POST", status |-> 201]]

V2_COLLECTION_PARAMS == {K_page, K_per_page, K_sort_order}

(* ------------------------------------------------------------------ *)
(* State                                                                *)
(* ------------------------------------------------------------------ *)
VARIABLES
    self,        \* the client instance: its attributes
    callers,     \* the threads that call operations on the client
    serialized,  \* whether the callers hold an external lock from the header
                 \* policy to the end of the call
    holder,      \* the thread holding that lock, 0 when free
    pc,          \* per thread: idle, validated, ready, done
    frame,       \* per thread: the local variables of call()
    request,     \* per thread: the HTTP request the current call issued
    response,    \* per thread: the response it received
    result,      \* per thread: what the call returned or raised
    sent,        \* per thread: the HTTP requests the current call has issued
    injected     \* history: a call has put the search Authorization header
                 \* into the shared mapping

vars == <<self, callers, serialized, holder, pc, frame, request, response, result, sent, injected>>

Threads == {1, 2}

NoFrame == [active |-> FALSE]
NoRequest == [sent |-> FALSE]
NoResponse == [received |-> FALSE]

(* ------------------------------------------------------------------ *)
(* Zendesk.__init__                                                     *)
(* ------------------------------------------------------------------ *)
DefaultHeaders ==
    [k \in {"User-agent", "Content-Type", "charset"} |->
        CASE k = "User-agent" -> <<"Zendesk Python Library v1.3.1">>
          [] k = "Content-Type" -> <<"application/json">>
          [] k = "charset" -> <<"utf-8">>]

\* One credential is enough to set auth.
HasCredentials_Either(username, password) ==
    username.t # "None" \/ password.t # "None"

\* The auth attribute is set only when both credentials are given.
HasCredentials(username, password) == username.t # "None" /\ password.t # "None"

\* The instance __init__ builds.  use_api_token with no username raises in
\* the constructor (None += "/token"), so such arguments build no client.
Construct(zendesk_url, zendesk_username, zendesk_password, use_api_token, headers, api_version) ==
    LET username == IF use_api_token
                    THEN PyStr(zendesk_username.v \o <<"/", "t", "o", "k", "e", "n">>)
                    ELSE zendesk_username
    IN [data |-> PyNone,
        zendesk_url |-> RStripSlash(zendesk_url),
        zendesk_username |-> username,
        zendesk_password |-> zendesk_password,
        headers |-> IF headers.t = "None" THEN DefaultHeaders ELSE headers.v,
        auth |-> IF HasCredentials(username, zendesk_password)
                 THEN [set |-> TRUE, value |-> <<username, zendesk_password>>]
                 ELSE [set |-> FALSE],
        api_version |-> api_version]

MappingTable(client) ==
    IF client.api_version = 1 THEN mapping_table_v1 ELSE mapping_table_v2

(* ------------------------------------------------------------------ *)
(* Zendesk.__getattr__ and call(): the steps up to the header policy    *)
(* ------------------------------------------------------------------ *)
\* The check of one keyword in the validation loop.
Unexpected(kw, valid_params, api_version) ==
    kw \notin valid_params
    /\ (api_version = 2 /\ kw \notin V2_COLLECTION_PARAMS)

\* The validation loop: the first keyword, in the dict's order, that the
\* check rejects.
RECURSIVE FirstUnexpected(_, _, _)
FirstUnexpected(order, valid_params, api_version) ==
    IF Len(order) = 0 THEN [found |-> FALSE]
    ELSE IF Unexpected(order[1], valid_params, api_version)
    THEN [found |-> TRUE, kw |-> order[1]]
    ELSE FirstUnexpected(Tail(order), valid_params, api_version)

\* call() from its first line to the end of the validation loop.
Prepare(client, api_call, kwargs) ==
    LET api_map == MappingTable(client)[api_call]
        path == IF client.api_version = 2 THEN <<"/", "a", "p", "i", "/", "v", "2">> \o api_map.path
                ELSE api_map.path
        valid_params == IF "valid_params" \in DOMAIN api_map
                        THEN api_map.valid_params ELSE {}
        popped == Pop(kwargs, K_data, PyNone)
        body == PyOr(popped.value, client.data)
        sub == Substitute(client.zendesk_url \o path, popped.kwargs)
        bad == FirstUnexpected(DictOrder(DOMAIN sub.kwargs), valid_params,
                               client.api_version)
    IN [active |-> TRUE, api_call |-> api_call, kwargs |-> kwargs,
        path |-> path, method |-> api_map.method, status |-> api_map.status,
        body |-> body, rest |-> sub.kwargs, unexpected |-> bad,
        url |-> IF bad.found THEN sub.url
                ELSE sub.url \o <<"?">> \o urlencode(sub.kwargs)]

(* ------------------------------------------------------------------ *)
(* call(): the header policy and the dispatch                           *)
(* ------------------------------------------------------------------ *)
SetKey(d, k, v) == [x \in (DOMAIN d) \cup {k} |-> IF x = k THEN v ELSE d[x]]
DelKey(d, k) == [x \in (DOMAIN d) \ {k} |-> d[x]]

\* "Basic %s" % base64.b64encode(username + ':' + password)
BasicAuthorization(username, password) ==
    <<"B", "a", "s", "i", "c", " ">> \o b64encode(username \o <<":">> \o password)

\* A policy without the elif branch: nothing removes the header.
HeaderPolicy_NoDelete(client, path) ==
    IF IsSearchPath(path)
    THEN IF client.zendesk_username.t = "None" \/ client.zendesk_password.t = "None"
         THEN [ok |-> FALSE, exc |-> TypeErrorOf("concatenate")]
         ELSE [ok |-> TRUE,
               headers |-> SetKey(client.headers, "Authorization",
                                  BasicAuthorization(client.zendesk_username.v,
                                                     client.zendesk_password.v))]
    ELSE [ok |-> TRUE, headers |-> client.headers]

\* The if/elif on the path: the header mapping afterwards, or the TypeError
\* of concatenating None when a credential is missing.
HeaderPolicy(client, path) ==
    IF IsSearchPath(path)
    THEN IF client.zendesk_username.t = "None" \/ client.zendesk_password.t = "None"
         THEN [ok |-> FALSE, exc |-> TypeErrorOf("concatenate")]
         ELSE [ok |-> TRUE,
               headers |-> SetKey(client.headers, "Authorization",
                                  BasicAuthorization(client.zendesk_username.v,
                                                     client.zendesk_password.v))]
    ELSE IF "Authorization" \in DOMAIN client.headers
    THEN [ok |-> TRUE, headers |-> DelKey(client.headers, "Authorization")]
    ELSE [ok |-> TRUE, headers |-> client.headers]

Methods == {"GET", "POST", "PUT", "DELETE"}

\* self.<name> for a name that is no instance attribute: __getattr__ looks
\* it up in the mapping table.
GetAttr(client, name) ==
    IF name \in DOMAIN MappingTable(client) THEN Returned([bound |-> name])
    ELSE Raised(AttributeError(name))

\* The evaluation of methods[method](url, auth=self.auth, ...) up to the
\* point where the request leaves: the request, or the exception.
BuildRequest(client, f) ==
    IF f.method \notin Methods THEN Raised(KeyError(f.method))
    ELSE IF ~client.auth.set
    THEN LET a == GetAttr(client, "auth")
         IN IF a.kind = "raise" THEN a ELSE Raised(TypeErrorOf("auth"))
    ELSE Returned([sent |-> TRUE, api_call |-> f.api_call, method |-> f.method,
                   url |-> f.url, auth |-> client.auth.value,
                   data |-> json_dumps(f.body), headers |-> client.headers])

(* ------------------------------------------------------------------ *)
(* Inputs                                                               *)
(* ------------------------------------------------------------------ *)
\* The most keywords one call passes.
MaxKwargs == 2

KwValue(k) ==
    CASE k = K_data -> PyDict([x \in {"name"} |-> PyStr(<<"n">>)])
      [] k = K_query -> PyStr(<<"a", " ", "b">>)
      [] k = K_page -> PyInt(2)
      [] k = K_user_id -> PyInt(5)
      [] k = K_identity_id -> PyInt(12)
      [] k = K_foo -> PyInt(1)

KwPool == {K_data, K_query, K_page, K_user_id, K_identity_id, K_foo}

KwargSets(pool) ==
    {[k \in D |-> KwValue(k)] : D \in {E \in SUBSET pool : Cardinality(E) <= MaxKwargs}}

Calls ==
    {[api_call |-> op, kwargs |-> kw] :
        op \in {"search", "show_identity", "create_user"}, kw \in KwargSets(KwPool)}
    \cup {[api_call |-> "frobnicate", kwargs |-> EmptyMap]}

ResponseHeaderValue(k) ==
    IF k = "retry-after" THEN <<"3", "0">> ELSE <<"/", "u", "s", "e", "r", "s", "/", "9", ".", "j", "s", "o", "n">>

Responses ==
    {[received |-> TRUE, status_code |-> s, content |-> b,
      headers |-> [k \in D |-> ResponseHeaderValue(k)]] :
        s \in {200, 201, 401, 404, 429},
        b \in {Body_empty, Body_blank, Body_emptyobj, Body_error, Body_list,
               Body_number, Body_text},
        D \in SUBSET {"retry-after", "location"}}

\* What the callers of a client shared between threads send and receive.
SharedCalls ==
    {[api_call |-> op, kwargs |-> kw] :
        op \in {"search", "show_identity"}, kw \in KwargSets({K_query})}

SharedResponses ==
    {[received |-> TRUE, status_code |-> s, content |-> Body_list,
      headers |-> EmptyMap] : s \in {200, 404}}

CustomHeaders ==
    [k \in {"Content-Type", "Authorization"} |->
        IF k = "Authorization" THEN <<"B", "e", "a", "r", "e", "r", " ", "t">> ELSE <<"application/json">>]

(* ------------------------------------------------------------------ *)
(* The state machine                                                    *)
(* ------------------------------------------------------------------ *)
Idle ==
    /\ holder = 0
    /\ pc = [t \in Threads |-> "idle"]
    /\ frame = [t \in Threads |-> NoFrame]
    /\ request = [t \in Threads |-> NoRequest]
    /\ response = [t \in Threads |-> NoResponse]
    /\ result = [t \in Threads |-> NoResult]
    /\ sent = [t \in Threads |-> 0]
    /\ injected = FALSE

\* One caller at a time: a client built from any constructor arguments that
\* build one (an api_version other than 1 or 2 raises ValueError).
Init ==
    /\ \E url \in {<<"h", "t", "t", "p", "s", ":", "/", "/", "z", ".", "c", "o">>, <<"h", "t", "t", "p", "s", ":", "/", "/", "z", ".", "c", "o", "/">>},
          u \in {PyNone, PyStr(<<"u">>)}, p \in {PyNone, PyStr(<<"p">>)},
          tok \in BOOLEAN, h \in {PyNone, PyDict(CustomHeaders)}, v \in {1, 2} :
            /\ tok => u.t # "None"
            /\ self = Construct(url, u, p, tok, h, v)
    /\ callers = {1}
    /\ serialized = FALSE
    /\ Idle

\* Two threads on one client with credentials, with or without the lock.
InitShared ==
    /\ \E h \in {PyNone, PyDict(CustomHeaders)}, v \in {1, 2} :
            self = Construct(<<"h", "t", "t", "p", "s", ":", "/", "/", "z", ".", "c", "o">>, PyStr(<<"u">>), PyStr(<<"p">>), FALSE, h, v)
    /\ callers = {1, 2}
    /\ serialized \in BOOLEAN
    /\ Idle

\* The lock is released when the call ends.
Released(t) == IF holder = t THEN 0 ELSE holder

\* client.<api_call>(**kwargs): the attribute lookup, then call() up to the
\* end of the validation loop.
Invoke(t, calls) ==
    /\ t \in callers
    /\ pc[t] = "idle"
    /\ \E c \in calls :
        IF c.api_call \notin DOMAIN MappingTable(self)
        THEN /\ frame' = [frame EXCEPT ![t] = [active |-> FALSE, api_call |-> c.api_call, kwargs |-> c.kwargs]]
             /\ result' = [result EXCEPT ![t] = Raised(AttributeError(c.api_call))]
             /\ pc' = [pc EXCEPT ![t] = "done"]
        ELSE LET f == Prepare(self, c.api_call, c.kwargs)
             IN /\ frame' = [frame EXCEPT ![t] = f]
                /\ IF f.unexpected.found
                   THEN /\ result' = [result EXCEPT ![t] =
                               Raised([type |-> "TypeError", api_call |-> c.api_call,
                                       kw |-> f.unexpected.kw])]
                        /\ pc' = [pc EXCEPT ![t] = "done"]
                   ELSE /\ result' = result
                        /\ pc' = [pc EXCEPT ![t] = "validated"]
    /\ UNCHANGED <<self, callers, serialized, holder, request, response, sent, injected>>

\* The header policy, on the client's shared header mapping.
ApplyHeaderPolicy(t) ==
    /\ t \in callers
    /\ pc[t] = "validated"
    /\ serialized => holder = 0
    /\ LET h == HeaderPolicy(self, frame[t].path)
       IN IF h.ok
          THEN /\ self' = [self EXCEPT !.headers = h.headers]
               /\ pc' = [pc EXCEPT ![t] = "ready"]
               /\ holder' = IF serialized THEN t ELSE holder
               /\ result' = result
               /\ injected' = (injected \/ IsSearchPath(frame[t].path))
          ELSE /\ self' = self
               /\ injected' = injected
               /\ pc' = [pc EXCEPT ![t] = "done"]
               /\ holder' = holder
               /\ result' = [result EXCEPT ![t] = Raised(h.exc)]
    /\ UNCHANGED <<callers, serialized, frame, request, response, sent>>

\* The HTTP request, the response, and the response handler.
Dispatch(t, responses) ==
    /\ t \in callers
    /\ pc[t] = "ready"
    /\ LET r == BuildRequest(self, frame[t])
       IN IF r.kind = "raise"
          THEN /\ result' = [result EXCEPT ![t] = r]
               /\ UNCHANGED <<request, response, sent>>
          ELSE \E resp \in responses :
               /\ request' = [request EXCEPT ![t] = r.value]
               /\ sent' = [sent EXCEPT ![t] = @ + 1]
               /\ response' = [response EXCEPT ![t] = resp]
               /\ result' = [result EXCEPT ![t] =
                      _response_handler(resp, resp.content, frame[t].status)]
    /\ pc' = [pc EXCEPT ![t] = "done"]
    /\ holder' = Released(t)
    /\ UNCHANGED <<self, callers, serialized, frame, injected>>

\* The caller takes the result; the call's locals are gone.
Finish(t) ==
    /\ t \in callers
    /\ pc[t] = "done"
    /\ pc' = [pc EXCEPT ![t] = "idle"]
    /\ frame' = [frame EXCEPT ![t] = NoFrame]
    /\ request' = [request EXCEPT ![t] = NoRequest]
    /\ response' = [response EXCEPT ![t] = NoResponse]
    /\ result' = [result EXCEPT ![t] = NoResult]
    /\ sent' = [sent EXCEPT ![t] = 0]
    /\ UNCHANGED <<self, callers, serialized, holder, injected>>

Next ==
    \E t \in Threads :
        \/ Invoke(t, Calls)
        \/ ApplyHeaderPolicy(t)
        \/ Dispatch(t, Responses)
        \/ Finish(t)

NextShared ==
    \E t \in Threads :
        \/ Invoke(t, SharedCalls)
        \/ ApplyHeaderPolicy(t)
        \/ Dispatch(t, SharedResponses)
        \/ Finish(t)

Spec == Init /\ [][Next]_vars

SpecShared == InitShared /\ [][NextShared]_vars

(* ------------------------------------------------------------------ *)
(* Properties                                                           *)
(* ------------------------------------------------------------------ *)
\* The valid_params the table declares for an operation.
DeclaredParams(api_call) ==
    LET e == MappingTable(self)[api_call]
    IN IF "valid_params" \in DOMAIN e THEN e.valid_params ELSE {}

\* A keyword the validator is specified to reject.
NotAllowed(kw, api_call) ==
    /\ kw \notin DeclaredParams(api_call)
    /\ self.api_version = 2 => kw \notin {K_page, K_per_page, K_sort_order}

\* C1: in both API versions, a call that leaves a keyword that is neither in
\* the operation's valid_params nor (version 2) a collection parameter fails
\* with the TypeError naming the operation and a keyword, and issues no
\* HTTP request.
C1_UnexpectedArgumentRejected ==
    \A t \in Threads :
        (frame[t].active /\ \E kw \in DOMAIN frame[t].rest : NotAllowed(kw, frame[t].api_call))
        => /\ pc[t] = "done"
           /\ result[t].kind = "raise"
           /\ result[t].exc.type = "TypeError"
           /\ "api_call" \in DOMAIN result[t].exc
           /\ result[t].exc.api_call = frame[t].api_call
           /\ NotAllowed(result[t].exc.kw, frame[t].api_call)
           /\ sent[t] = 0

\* C2: in both API versions, every request issued for the search operation
\* carries Authorization: Basic base64(username:password).
C2_SearchCarriesBasicAuth ==
    \A t \in Threads :
        (request[t].sent /\ request[t].api_call = "search")
        => /\ "Authorization" \in DOMAIN request[t].headers
           /\ request[t].headers["Authorization"] =
                BasicAuthorization(self.zendesk_username.v, self.zendesk_password.v)

\* C3: with one call at a time on a client, every request issued for an
\* operation other than search carries no Authorization header, whatever
\* calls came before it.
C3_NoAuthorizationOutsideSearch ==
    \A t \in Threads :
        (request[t].sent /\ request[t].api_call # "search")
        => "Authorization" \notin DOMAIN request[t].headers

\* C3, reached: after a search call injected the header, a request of another
\* operation has gone out without it.
C3_Witness ==
    /\ injected
    /\ request[1].sent
    /\ request[1].api_call = "show_identity"
    /\ "Authorization" \notin DOMAIN request[1].headers

\* C4: a response with status 401 makes the call fail with
\* AuthenticationError, whatever the body.
C4_Status401IsAuthenticationError ==
    \A t \in Threads :
        (response[t].received /\ response[t].status_code = 401)
        => /\ result[t].kind = "raise"
           /\ result[t].exc.type = "AuthenticationError"

\* C5: a response with status 429 and a retry-after header makes the call
\* fail with ExceededLimitError carrying that header value and the code 429,
\* after exactly one HTTP request.
C5_Status429IsExceededLimit ==
    \A t \in Threads :
        (response[t].received /\ response[t].status_code = 429
            /\ "retry-after" \in DOMAIN response[t].headers)
        => /\ result[t].kind = "raise"
           /\ result[t].exc.type = "ExceededLimitError"
           /\ result[t].exc.retry_after = PyStr(response[t].headers["retry-after"])
           /\ result[t].exc.error_code = 429
           /\ sent[t] = 1

\* C5, reached: a call has ended on a 429 response with a retry-after header.
C5_Witness ==
    /\ pc[1] = "done"
    /\ response[1].received
    /\ response[1].status_code = 429
    /\ "retry-after" \in DOMAIN response[1].headers
    /\ result[1].kind = "raise"

\* C6: when the status differs from the expected one and the body decodes as
\* JSON, the error raised carries the decoded value and the status code, not
\* the fallback message object.
C6_MismatchCarriesDecodedJson ==
    \A t \in Threads :
        (response[t].received /\ response[t].status_code # frame[t].status
            /\ json_loads(response[t].content).kind = "return")
        => /\ result[t].kind = "raise"
           /\ result[t].exc.type = "ZendeskError"
              => /\ result[t].exc.msg.t = json_loads(response[t].content).value.t
                 /\ result[t].exc.msg = json_loads(response[t].content).value
                 /\ result[t].exc.error_code = response[t].status_code

\* C7: when the status is the expected one the handler returns the decoded
\* body if it is a non-empty JSON value, else the Location header if there is
\* one, else a status message; it does not raise.
C7_SuccessReturnsByPriority ==
    \A t \in Threads :
        (response[t].received /\ response[t].status_code = frame[t].status)
        => LET r == response[t]
               d == json_loads(r.content)
               n == IF d.kind = "return" THEN PyLen(d.value) ELSE d
               nonEmpty == Strip(r.content) # <<>> /\ n.kind = "return" /\ n.value > 0
           IN /\ result[t].kind = "return"
              /\ nonEmpty => result[t].value = d.value
              /\ (~nonEmpty /\ "location" \in DOMAIN r.headers)
                 => result[t].value = PyStr(r.headers["location"])

\* The placeholders of each operation's path template.
PlaceholdersOf(api_call) ==
    IF api_call = "show_identity" THEN {K_user_id, K_identity_id} ELSE {}

\* The text a keyword's value stands for.
TextOf(kwargs, k) ==
    IF k \notin DOMAIN kwargs THEN <<>>
    ELSE IF k = K_user_id THEN <<"5">> ELSE <<"1", "2">>

\* The URL an operation's template resolves to.
ResolvedUrl(api_call, kwargs) ==
    LET base == <<"h", "t", "t", "p", "s", ":", "/", "/", "z", ".", "c", "o">> \o (IF self.api_version = 2 THEN <<"/", "a", "p", "i", "/", "v", "2">> ELSE <<>>)
    IN CASE api_call = "search" -> base \o <<"/", "s", "e", "a", "r", "c", "h", ".", "j", "s", "o", "n">>
         [] api_call = "create_user" -> base \o <<"/", "u", "s", "e", "r", "s", ".", "j", "s", "o", "n">>
         [] api_call = "show_identity" ->
               base \o <<"/", "u", "s", "e", "r", "s", "/">> \o TextOf(kwargs, K_user_id) \o <<"/", "i", "d", "s", "/">>
                    \o TextOf(kwargs, K_identity_id) \o <<".", "j", "s", "o", "n">>

Leaked(t) ==
    /\ request[t].sent
    /\ request[t].api_call # "search"
    /\ "Authorization" \in DOMAIN request[t].headers

\* A search request whose call injected the header went out without it.
Lost(t) ==
    /\ request[t].sent
    /\ request[t].api_call = "search"
    /\ IsSearchPath(frame[t].path)
    /\ "Authorization" \notin DOMAIN request[t].headers

C10_NoCredentialsNoRequest ==
    (self.zendesk_username.t = "None" \/ self.zendesk_password.t = "None")
    => /\ ~self.auth.set
       /\ \A t \in Threads :
            /\ sent[t] = 0
            /\ ~request[t].sent
            /\ (pc[t] = "done" /\ frame[t].active /\ ~frame[t].unexpected.found)
               => /\ result[t].kind = "raise"
                  /\ \/ /\ result[t].exc = AttributeError("auth")
                        /\ "Authorization" \notin DOMAIN self.headers
                     \/ /\ result[t].exc = TypeErrorOf("concatenate")
                        /\ frame[t].api_call = "search"

\* C10, reached: on a client without a password, built with headers that
\* carried Authorization, a call has ended at the dispatch with the header
\* already removed.
C10_Witness ==
    /\ self.zendesk_username.t = "str"
    /\ self.zendesk_password.t = "None"
    /\ "User-agent" \notin DOMAIN self.headers
    /\ "Authorization" \notin DOMAIN self.headers
    /\ pc[1] = "done"
    /\ frame[1].active
    /\ result[1].kind = "raise"
    /\ result[1].exc = AttributeError("auth")

=============================================================================
